---- MODULE Spec2Model ----
(***************************************************************************)
(* The four device-status coordinators of Yellowbox-exercise-task-oct24.ts *)
(* (getDevicesOnlineStatusOne, Two, Three, Four) as one state machine.     *)
(*                                                                         *)
(* Scheduling model: JavaScript's single-threaded event loop.  One action  *)
(* is one task of the event loop together with all the promise reactions   *)
(* (microtasks) it triggers: the code that runs from the settlement of an  *)
(* awaited transport promise (fetch(...) or response.json()) up to the     *)
(* next point where every chain of the call is waiting on the transport    *)
(* again.  The transport itself is the environment: it settles the         *)
(* outstanding promises in any order and with any outcome.                 *)
(*                                                                         *)
(* List positions are 1-based here (deviceIds[1] is the source's           *)
(* deviceIds[0]); currentIndex keeps the source's value, the number of     *)
(* positions claimed so far.                                               *)
(***************************************************************************)
EXTENDS Integers, Sequences, FiniteSets, TLC

\* other is a second call of the same coordinator, made by the same program,
\* while it is not the one whose task the event loop runs.  clock is the
\* wall clock of a run in which every request takes the same time.
VARIABLES variant, deviceIds, result, reqs, map, returned,
          activeRequests, currentIndex, other, clock

vars == <<variant, deviceIds, result, reqs, map, returned,
          activeRequests, currentIndex, other, clock>>

(* ------------------------------ bounds -------------------------------- *)

\* longest identifier list of the family "10", "11", "12", ...
MaxLen == 6

\* longest identifier list enumerated in full over IdPool
ShortLen == 2

(* ------------------------- program constants -------------------------- *)

MutBatchSize == 5 + 1

batchSize == 5

MutMaxConcurrentRequests == 5 + 1

maxConcurrentRequests == 5

(* ---------------------------- identifiers ----------------------------- *)

\* An identifier is a string of decimal digits, kept as the sequence of its
\* digits: <<1, 0>> is "10".
IdPool == { <<2>>, <<1, 0>>, <<3>> }

LongId(i) == << 1, (i - 1) % 10 >>

LongList(n) == [i \in 1..n |-> LongId(i)]

RECURSIVE SeqsOver(_, _)
SeqsOver(S, n) ==
  IF n = 0 THEN { <<>> }
  ELSE LET shorter == SeqsOver(S, n - 1)
       IN  shorter \cup { Append(s, x) : s \in { t \in shorter : Len(t) = n - 1 }, x \in S }

Inputs == SeqsOver(IdPool, ShortLen) \cup { LongList(n) : n \in 0..MaxLen }

Variants == { "One", "Two", "Three", "Four" }

\* Number(key) of sortedMap's comparator, for a string of decimal digits
RECURSIVE Number(_)
Number(id) ==
  IF Len(id) = 0 THEN 0
  ELSE 10 * Number(SubSeq(id, 1, Len(id) - 1)) + id[Len(id)]

(* ------------------------------ transport ----------------------------- *)

\* How the promise returned by fetch(...) settles: a response with
\* response.ok, a response without it (429, 403, ...), or a rejection.
FetchKinds == { "ok", "status", "network" }

\* Bodies of a successful response: the two JSON booleans, a JSON value that
\* is not a boolean, and text that is not JSON.
Bodies == { "true", "false", "1", "<html>" }

\* Bodies sent by the reference backend: res.json({ online: ... })
ObjectBodies == { "{\"online\":true}", "{\"online\":false}" }

\* response.json(): the parsed value, or "throws"
Json(body) ==
  IF body \in { "true", "false", "1" } \cup ObjectBodies THEN body ELSE "throws"

(* ------------------------------ the Map ------------------------------- *)

\* A JavaScript Map: its entries in insertion order.
Keys(m) == { m[i].k : i \in 1..Len(m) }

Has(m, key) == key \in Keys(m)

Get(m, key) == LET i == CHOOSE j \in 1..Len(m) : m[j].k = key IN m[i].v

\* a set that starts the map afresh
MutMapSet(m, key, val) == << [k |-> key, v |-> val] >>

\* Map.prototype.set: a new key is appended, an existing key keeps its place
MapSet(m, key, val) ==
  IF Has(m, key)
  THEN [i \in 1..Len(m) |-> IF m[i].k = key THEN [k |-> key, v |-> val] ELSE m[i]]
  ELSE Append(m, [k |-> key, v |-> val])

\* The place of the i-th entry after the (stable) sort by Number(key), num
\* being the numbers of the entries: it follows the entries of smaller
\* number and the earlier entries of the same number.
Rank(num, i) ==
  Cardinality({ j \in DOMAIN num :
     \/ num[j] < num[i]
     \/ num[j] = num[i] /\ j <= i })

SortEntries(m) ==
  LET num == [i \in 1..Len(m) |-> Number(m[i].k)]
      place == [i \in 1..Len(m) |-> Rank(num, i)]
  IN  [r \in 1..Len(m) |-> m[CHOOSE i \in 1..Len(m) : place[i] = r]]

\* the map returned as it was filled
MutSortedMap(m) == m

sortedMap(m) == SortEntries(m)

(* ------------------------------ requests ------------------------------ *)

\* One invocation of fetch(...): the list position it asks for, where its
\* chain is waiting, the admission chain that issued it (Four only), how it
\* ended, and the console.error calls it caused.  When the call runs against
\* the reference backend, net is where the request is on its way: "sent",
\* "serving" (in a handler of the backend, before its timer), "answered", or
\* the status by which the backend refused it.
Req(p, c) ==
  [pos |-> p, phase |-> "fetching", chain |-> c, outcome |-> "none", diag |-> 0,
   net |-> "sent"]

\* the requests of a slice issued from its last member to its first
MutIssue(rs, positions, c) ==
  rs \o [i \in 1..Cardinality(positions) |->
           Req(CHOOSE p \in positions :
                 Cardinality({ q \in positions : q > p }) = i - 1, c)]

Issue(rs, positions, c) ==
  rs \o [i \in 1..Cardinality(positions) |->
           Req(CHOOSE p \in positions :
                 Cardinality({ q \in positions : q < p }) = i - 1, c)]

Outstanding(rs) == { i \in 1..Len(rs) : rs[i].phase \in { "fetching", "parsing" } }

AllDone(rs) == \A i \in 1..Len(rs) : rs[i].phase = "done"

N == Len(deviceIds)

IdOf(rs, i) == deviceIds[rs[i].pos]

\* the handler's else branch: console.error, map.set(deviceId, false)
Failed(rs, i, how) ==
  [rs EXCEPT ![i].phase = "done", ![i].outcome = how, ![i].diag = @ + 1]

\* the handler after "await response.json()": map.set(deviceId, status), or
\* the catch block when json() threw
Parsed(rs, i, body) ==
  IF Json(body) = "throws"
  THEN [rs EXCEPT ![i].phase = "done", ![i].outcome = "badjson", ![i].diag = @ + 1]
  ELSE [rs EXCEPT ![i].phase = "done", ![i].outcome = body]

\* map.set(deviceId, false) of the else branch and of the catch block
MutDefaulted(m, id) == MapSet(m, id, "true")

Defaulted(m, id) == MapSet(m, id, "false")

\* the map after "await response.json()": the parsed value is stored as it
\* is; when json() threw, the catch block stores false
Stored(m, id, body) ==
  IF Json(body) = "throws" THEN Defaulted(m, id) ELSE MapSet(m, id, Json(body))

\* The transport considered.  For a list of at most ShortLen identifiers
\* every request may end in any way.  For the longer lists every request is
\* answered with a successful response and the body true, except at most one
\* request of the call, which may be any of them and either fails outright
\* or is answered with the body false.
Faulty(rs) == { i \in 1..Len(rs) : rs[i].outcome \notin { "none", "true" } }

\* the call runs against the reference backend, which decides the answers
Backed(rs) == \E i \in 1..Len(rs) : rs[i].net /= "sent"

Transport(how) ==
  \/ N <= ShortLen
  \/ how \in { "ok", "true" }
  \/ how \in { "network", "false" } /\ Faulty(reqs) = { }
  \/ Backed(reqs)

(* -------------------------------- Init -------------------------------- *)

\* a clock that is not running: the time now, the delay of a request and
\* the times at which the requests on their way are answered
NoClock == [now |-> 0, delay |-> 0, due |-> << >>]

\* the bindings of a call that has not begun: "const map = new Map()",
\* "let activeRequests = 0", "let currentIndex = 0"
NewCall(ids) ==
  [deviceIds |-> ids, result |-> "idle", reqs |-> << >>, map |-> << >>,
   returned |-> << >>, activeRequests |-> 0, currentIndex |-> 0]

Init ==
  /\ variant \in Variants
  /\ deviceIds \in Inputs
  /\ result = "idle"
  /\ reqs = << >>
  /\ map = << >>
  /\ returned = << >>
  /\ activeRequests = 0
  /\ currentIndex = 0
  /\ other = NewCall(<< >>)
  /\ clock = NoClock

(* ---------------- getDevicesOnlineStatusOne (sequential) --------------- *)

\* the loop without its await (deviceIds.forEach(async ...)): every
\* remaining position is fetched at once
MutOneLoop(rs, m, p) ==
  /\ map' = m
  /\ IF p <= N
     THEN /\ reqs' = Issue(rs, p..N, 0)
          /\ result' = "pending"
          /\ returned' = returned
     ELSE /\ reqs' = rs
          /\ result' = "resolved"
          /\ returned' = m

\* a do-while loop: the first fetch is made before the length is tested
MutOneLoopDoWhile(rs, m, p) ==
  /\ map' = m
  /\ IF p <= N \/ p = 1
     THEN /\ reqs' = Append(rs, Req(p, 0))
          /\ result' = "pending"
          /\ returned' = returned
     ELSE /\ reqs' = rs
          /\ result' = "resolved"
          /\ returned' = m

\* One ending with "return sortedMap(map)" like the other coordinators
MutOneLoopSorted(rs, m, p) ==
  /\ map' = m
  /\ IF p <= N
     THEN /\ reqs' = Append(rs, Req(p, 0))
          /\ result' = "pending"
          /\ returned' = returned
     ELSE /\ reqs' = rs
          /\ result' = "resolved"
          /\ returned' = sortedMap(map')

\* The for-of loop arriving at list position p: the next fetch is awaited,
\* or the list is exhausted and the map is returned as it is.
OneLoop(rs, m, p) ==
  /\ map' = m
  /\ IF p <= N
     THEN /\ reqs' = Append(rs, Req(p, 0))
          /\ result' = "pending"
          /\ returned' = returned
     ELSE /\ reqs' = rs
          /\ result' = "resolved"
          /\ returned' = m

CallOne ==
  /\ variant = "One"
  /\ result = "idle"
  /\ OneLoop(<< >>, << >>, 1)
  /\ UNCHANGED <<clock, other, variant, deviceIds, activeRequests, currentIndex>>

OneResponse(i, kind) ==
  /\ variant = "One"
  /\ i \in 1..Len(reqs)
  /\ reqs[i].phase = "fetching"
  /\ Transport(kind)
  /\ IF kind = "ok"
     THEN /\ reqs' = [reqs EXCEPT ![i].phase = "parsing"]
          /\ UNCHANGED <<map, result, returned>>
     ELSE OneLoop(Failed(reqs, i, kind), Defaulted(map, IdOf(reqs, i)),
                  reqs[i].pos + 1)
  /\ UNCHANGED <<clock, other, variant, deviceIds, activeRequests, currentIndex>>

OneBody(i, body) ==
  /\ variant = "One"
  /\ i \in 1..Len(reqs)
  /\ reqs[i].phase = "parsing"
  /\ Transport(body)
  /\ OneLoop(Parsed(reqs, i, body), Stored(map, IdOf(reqs, i), body),
             reqs[i].pos + 1)
  /\ UNCHANGED <<clock, other, variant, deviceIds, activeRequests, currentIndex>>

(* ---------------- getDevicesOnlineStatusTwo (unbounded) --------------- *)

\* The second Promise.all: responses.map(async (response, index) => ...).
\* Every callback runs at once up to its first await, in index order: a null
\* or non-ok response is written as false on the spot, an ok response waits
\* for response.json().
TwoEach(rs) ==
  [i \in 1..Len(rs) |->
     IF rs[i].outcome = "none"
     THEN [rs[i] EXCEPT !.phase = "parsing"]
     ELSE [rs[i] EXCEPT !.phase = "done", !.diag = @ + 1]]

RECURSIVE TwoWrites(_, _, _)
TwoWrites(rs, m, n) ==
  IF n = 0 THEN m
  ELSE LET before == TwoWrites(rs, m, n - 1)
       IN  IF rs[n].outcome = "none" THEN before
           ELSE Defaulted(before, deviceIds[rs[n].pos])

\* the end of Two once nothing is awaited any more
TwoReturn(rs, m) ==
  /\ reqs' = rs
  /\ map' = m
  /\ IF AllDone(rs)
     THEN result' = "resolved" /\ returned' = sortedMap(map')
     ELSE result' = "pending" /\ returned' = returned

\* the false entries written as each fetch settles, not after all of them
MutTwoGather(rs, m) ==
  IF \A i \in 1..Len(rs) : rs[i].phase = "held"
  THEN TwoReturn(TwoEach(rs), TwoWrites(rs, m, Len(rs)))
  ELSE /\ reqs' = rs
       /\ map' = TwoWrites(rs, m, Len(rs))
       /\ result' = "pending"
       /\ returned' = returned

\* the first Promise.all has resolved when no fetch is outstanding
TwoGather(rs, m) ==
  IF \A i \in 1..Len(rs) : rs[i].phase = "held"
  THEN TwoReturn(TwoEach(rs), TwoWrites(rs, m, Len(rs)))
  ELSE /\ reqs' = rs
       /\ map' = m
       /\ result' = "pending"
       /\ returned' = returned

\* Two fetching only a first slice of the list
MutCallTwo ==
  /\ variant = "Two"
  /\ result = "idle"
  /\ TwoGather(Issue(<< >>, 1..(IF N < 5 THEN N ELSE 5), 0), << >>)
  /\ UNCHANGED <<clock, other, variant, deviceIds, activeRequests, currentIndex>>

CallTwo ==
  /\ variant = "Two"
  /\ result = "idle"
  /\ TwoGather(Issue(<< >>, 1..N, 0), << >>)
  /\ UNCHANGED <<clock, other, variant, deviceIds, activeRequests, currentIndex>>

\* fetch(...).catch(...) of one identifier settles; the response (or null)
\* is held until all of them have
TwoResponse(i, kind) ==
  /\ variant = "Two"
  /\ i \in 1..Len(reqs)
  /\ reqs[i].phase = "fetching"
  /\ Transport(kind)
  /\ TwoGather(
       [reqs EXCEPT ![i].phase = "held",
                    ![i].outcome = IF kind = "ok" THEN "none" ELSE kind,
                    ![i].diag = IF kind = "network" THEN @ + 1 ELSE @],
       map)
  /\ UNCHANGED <<clock, other, variant, deviceIds, activeRequests, currentIndex>>

TwoBody(i, body) ==
  /\ variant = "Two"
  /\ i \in 1..Len(reqs)
  /\ reqs[i].phase = "parsing"
  /\ Transport(body)
  /\ TwoReturn(Parsed(reqs, i, body), Stored(map, IdOf(reqs, i), body))
  /\ UNCHANGED <<clock, other, variant, deviceIds, activeRequests, currentIndex>>

(* ---------------- getDevicesOnlineStatusThree (batched) --------------- *)

Min(a, b) == IF a < b THEN a ELSE b

\* the loop fetching one identifier of its slice only
MutThreeLoop(rs, m, i) ==
  /\ map' = m
  /\ IF i < N
     THEN /\ reqs' = Issue(rs, (i + 1)..(i + 1), 0)
          /\ result' = "pending"
          /\ returned' = returned
     ELSE /\ reqs' = rs
          /\ result' = "resolved"
          /\ returned' = sortedMap(map')

\* The for loop at "i" (0-based, as in the source): the slice
\* deviceIds.slice(i, endIndex) is fetched, or the loop is over and the
\* sorted map is returned.
ThreeLoop(rs, m, i) ==
  /\ map' = m
  /\ IF i < N
     THEN /\ reqs' = Issue(rs, (i + 1)..Min(i + batchSize, N), 0)
          /\ result' = "pending"
          /\ returned' = returned
     ELSE /\ reqs' = rs
          /\ result' = "resolved"
          /\ returned' = sortedMap(map')

\* Promise.race in the place of Promise.all: the loop goes on as soon as
\* one member of the slice has finished
MutThreeAwait(rs, m) ==
  IF result = "pending" /\ Len(rs) < N
  THEN ThreeLoop(rs, m, Len(rs))
  ELSE IF result = "pending" /\ AllDone(rs)
       THEN ThreeLoop(rs, m, N)
       ELSE /\ reqs' = rs
            /\ map' = m
            /\ UNCHANGED <<result, returned>>

\* Promise.all of the current slice: it resolves when every member has, and
\* then the loop goes on with i + batchSize, which is the number of requests
\* issued so far unless the list is exhausted.  After a rejection the call
\* is over and nothing waits on the slice any more.
ThreeAwait(rs, m) ==
  IF result = "pending" /\ AllDone(rs)
  THEN ThreeLoop(rs, m, IF Len(rs) = N THEN N ELSE Len(rs))
  ELSE /\ reqs' = rs
       /\ map' = m
       /\ UNCHANGED <<result, returned>>

CallThree ==
  /\ variant = "Three"
  /\ result = "idle"
  /\ ThreeLoop(<< >>, << >>, 0)
  /\ UNCHANGED <<clock, other, variant, deviceIds, activeRequests, currentIndex>>

\* "responses": the fetch is awaited outside the try block, so a rejected
\* fetch rejects the promise of "responses", and with it Promise.all and the
\* call; nothing is written for that identifier.
ThreeResponse(i, kind) ==
  /\ variant = "Three"
  /\ i \in 1..Len(reqs)
  /\ reqs[i].phase = "fetching"
  /\ Transport(kind)
  /\ CASE kind = "ok" ->
            /\ reqs' = [reqs EXCEPT ![i].phase = "parsing"]
            /\ UNCHANGED <<map, result, returned>>
       [] kind = "status" ->
            ThreeAwait(Failed(reqs, i, kind), Defaulted(map, IdOf(reqs, i)))
       [] kind = "network" ->
            /\ reqs' = [reqs EXCEPT ![i].phase = "done", ![i].outcome = "network"]
            /\ result' = IF result = "pending" THEN "rejected" ELSE result
            /\ UNCHANGED <<map, returned>>
  /\ UNCHANGED <<clock, other, variant, deviceIds, activeRequests, currentIndex>>

ThreeBody(i, body) ==
  /\ variant = "Three"
  /\ i \in 1..Len(reqs)
  /\ reqs[i].phase = "parsing"
  /\ Transport(body)
  /\ ThreeAwait(Parsed(reqs, i, body), Stored(map, IdOf(reqs, i), body))
  /\ UNCHANGED <<clock, other, variant, deviceIds, activeRequests, currentIndex>>

(* -------------- getDevicesOnlineStatusFour (sliding window) ----------- *)

\* deviceIds[++currentIndex] in the place of deviceIds[currentIndex++]
MutExecuteNext(s, c) ==
  IF s.currentIndex >= N THEN s
  ELSE [reqs |-> Append(s.reqs, Req(s.currentIndex + 2, c)),
        currentIndex |-> s.currentIndex + 1,
        activeRequests |-> s.activeRequests + 1]

\* executeNext without its "activeRequests++"
MutExecuteNextUncounted(s, c) ==
  IF s.currentIndex >= N THEN s
  ELSE [reqs |-> Append(s.reqs, Req(s.currentIndex + 1, c)),
        currentIndex |-> s.currentIndex + 1,
        activeRequests |-> s.activeRequests]

\* executeNext, on the call's shared state s = [reqs, activeRequests,
\* currentIndex], for the admission chain c
executeNext(s, c) ==
  IF s.currentIndex >= N THEN s
  ELSE [reqs |-> Append(s.reqs, Req(s.currentIndex + 1, c)),
        currentIndex |-> s.currentIndex + 1,
        activeRequests |-> s.activeRequests + 1]

\* a .finally callback that only releases its slot
MutOnFinally(s, c) == [s EXCEPT !.activeRequests = @ - 1]

\* a .finally callback without its "activeRequests--"
MutOnFinallyKept(s, c) ==
  IF s.activeRequests < maxConcurrentRequests /\ s.currentIndex < N
  THEN executeNext(s, c)
  ELSE s

\* "activeRequests < maxConcurrentRequests - 1": a slot is refilled only
\* when two are free
MutOnFinallyStrict(s, c) ==
  LET d == [s EXCEPT !.activeRequests = @ - 1]
  IN  IF d.activeRequests < maxConcurrentRequests - 1 /\ d.currentIndex < N
      THEN executeNext(d, c)
      ELSE d

\* the callback of .finally(...) in executeNext
onFinally(s, c) ==
  LET d == [s EXCEPT !.activeRequests = @ - 1]
  IN  IF d.activeRequests < maxConcurrentRequests /\ d.currentIndex < N
      THEN executeNext(d, c)
      ELSE d

\* [executeNext()] in the place of the array of chains: one chain is started
MutInitialBatch(s, k) == IF k = 0 THEN s ELSE executeNext(s, 1)

\* Array(Math.min(maxConcurrentRequests, deviceIds.length)).fill(null)
\*   .map(executeNext): chains 1 .. k are started one after the other
RECURSIVE initialBatch(_, _)
initialBatch(s, k) ==
  IF k = 0 THEN s ELSE executeNext(initialBatch(s, k - 1), k)

\* the .finally callback calling executeNext() without returning its
\* promise: a chain's promise resolves when its first request has finished
MutFourAwait(s, m) ==
  /\ reqs' = s.reqs
  /\ activeRequests' = s.activeRequests
  /\ currentIndex' = s.currentIndex
  /\ map' = m
  /\ IF \A i \in 1..Len(s.reqs) :
          i <= maxConcurrentRequests => s.reqs[i].phase = "done"
     THEN /\ result' = "resolved"
          /\ returned' = IF result = "resolved" THEN returned ELSE sortedMap(map')
     ELSE result' = "pending" /\ returned' = returned

\* await Promise.all(initialBatch): every chain has ended when none of its
\* requests is left unfinished; then the sorted map is returned
FourAwait(s, m) ==
  /\ reqs' = s.reqs
  /\ activeRequests' = s.activeRequests
  /\ currentIndex' = s.currentIndex
  /\ map' = m
  /\ IF AllDone(s.reqs)
     THEN result' = "resolved" /\ returned' = sortedMap(map')
     ELSE result' = "pending" /\ returned' = returned

Shared(rs) ==
  [reqs |-> rs, activeRequests |-> activeRequests, currentIndex |-> currentIndex]

CallFour ==
  /\ variant = "Four"
  /\ result = "idle"
  /\ FourAwait(initialBatch(Shared(<< >>), Min(maxConcurrentRequests, N)), << >>)
  /\ UNCHANGED <<clock, other, variant, deviceIds>>

\* fetchDeviceStatus after "await fetch(...)", followed, when it is over, by
\* the .finally callback of its chain
FourResponse(i, kind) ==
  /\ variant = "Four"
  /\ i \in 1..Len(reqs)
  /\ reqs[i].phase = "fetching"
  /\ Transport(kind)
  /\ IF kind = "ok"
     THEN /\ reqs' = [reqs EXCEPT ![i].phase = "parsing"]
          /\ UNCHANGED <<map, result, returned, activeRequests, currentIndex>>
     ELSE FourAwait(onFinally(Shared(Failed(reqs, i, kind)), reqs[i].chain),
                    Defaulted(map, IdOf(reqs, i)))
  /\ UNCHANGED <<clock, other, variant, deviceIds>>

FourBody(i, body) ==
  /\ variant = "Four"
  /\ i \in 1..Len(reqs)
  /\ reqs[i].phase = "parsing"
  /\ Transport(body)
  /\ FourAwait(onFinally(Shared(Parsed(reqs, i, body)), reqs[i].chain),
               Stored(map, IdOf(reqs, i), body))
  /\ UNCHANGED <<clock, other, variant, deviceIds>>

(* ------------------------------ behaviour ----------------------------- *)

Slots == 1..(MaxLen + ShortLen)

Next ==
  \/ CallOne
  \/ \E i \in Slots, kind \in FetchKinds : OneResponse(i, kind)
  \/ \E i \in Slots, body \in Bodies : OneBody(i, body)
  \/ CallTwo
  \/ \E i \in Slots, kind \in FetchKinds : TwoResponse(i, kind)
  \/ \E i \in Slots, body \in Bodies : TwoBody(i, body)
  \/ CallThree
  \/ \E i \in Slots, kind \in FetchKinds : ThreeResponse(i, kind)
  \/ \E i \in Slots, body \in Bodies : ThreeBody(i, body)
  \/ CallFour
  \/ \E i \in Slots, kind \in FetchKinds : FourResponse(i, kind)
  \/ \E i \in Slots, body \in Bodies : FourBody(i, body)

Spec == Init /\ [][Next]_vars

\* The transport answers every request and the event loop runs every task
\* that is ready: a step is taken as long as one is possible.
FairSpec == Spec /\ WF_vars(Next)

(* ------------------- the call against the reference backend ---------- *)

\* the path of the URL each coordinator fetches, before the identifier
Path(v) ==
  CASE v = "One" -> "/api/one-request/"
    [] v = "Two" -> "/api/unlimited-requests/"
    [] v = "Three" -> "/api/limited-requests/"
    [] v = "Four" -> "/"

ClientToken == "eyJ0eXAiOiJKadsCJhbGciOiJIy45wNiJ9.eyJpc3MiOiJ5ZWx..."

ServerToken == "eyJ0eXAiOiJKadsCJhbGciOiJIy45wNiJ9.eyJpc3MiOiJ5ZWx..."

\* the lookup table mockData.json: { "10": true, "11": false, "12": true }
mockData == ( <<1, 0>> :> TRUE ) @@ ( <<1, 1>> :> FALSE ) @@ ( <<1, 2>> :> TRUE )

\* res.json({ online: mockData[deviceId] || false })
ServerBody(id) ==
  IF id \in DOMAIN mockData /\ mockData[id]
  THEN "{\"online\":true}"
  ELSE "{\"online\":false}"

\* the requests inside a handler of the backend whose timer has not fired
Serving(rs) == { i \in 1..Len(rs) : rs[i].net = "serving" }

\* activeRequest of the backend
activeRequest == Serving(reqs) /= { }

\* activeRequestsCount of the backend
activeRequestsCount == Cardinality(Serving(reqs))

\* the most requests the limited-requests handler serves at a time
ServerLimit == 5

\* the backend receiving a request: the authorization middleware, then the
\* route of the path, or no route at all
Received(path) ==
  CASE ClientToken /= ServerToken -> "403"
    [] OTHER ->
       CASE path = "/api/one-request/" ->
              IF activeRequest THEN "429" ELSE "serving"
         [] path = "/api/unlimited-requests/" -> "serving"
         [] path = "/api/limited-requests/" ->
              IF activeRequestsCount >= ServerLimit THEN "429" ELSE "serving"
         [] OTHER -> "404"

SrvArrive(i, path) ==
  /\ i \in 1..Len(reqs)
  /\ reqs[i].phase = "fetching"
  /\ reqs[i].net = "sent"
  /\ reqs' = [reqs EXCEPT ![i].net = Received(path)]
  /\ UNCHANGED <<clock, other, variant, deviceIds, result, map, returned, activeRequests, currentIndex>>

\* the setTimeout callback of a handler: the counter is released and the
\* response sent
SrvTimeout(i) ==
  /\ i \in 1..Len(reqs)
  /\ reqs[i].net = "serving"
  /\ reqs' = [reqs EXCEPT ![i].net = "answered"]
  /\ UNCHANGED <<clock, other, variant, deviceIds, result, map, returned, activeRequests, currentIndex>>

\* how fetch(...) settles for a request the backend has dealt with
Settled(i) == IF reqs[i].net = "answered" THEN "ok" ELSE "status"

SrvOneResponse(i) ==
  /\ i \in 1..Len(reqs)
  /\ reqs[i].net \notin { "sent", "serving" }
  /\ OneResponse(i, Settled(i))

SrvOneBody(i) ==
  /\ i \in 1..Len(reqs)
  /\ OneBody(i, ServerBody(IdOf(reqs, i)))

SrvTwoResponse(i) ==
  /\ i \in 1..Len(reqs)
  /\ reqs[i].net \notin { "sent", "serving" }
  /\ TwoResponse(i, Settled(i))

SrvTwoBody(i) ==
  /\ i \in 1..Len(reqs)
  /\ TwoBody(i, ServerBody(IdOf(reqs, i)))

SrvThreeResponse(i) ==
  /\ i \in 1..Len(reqs)
  /\ reqs[i].net \notin { "sent", "serving" }
  /\ ThreeResponse(i, Settled(i))

SrvThreeBody(i) ==
  /\ i \in 1..Len(reqs)
  /\ ThreeBody(i, ServerBody(IdOf(reqs, i)))

SrvFourResponse(i) ==
  /\ i \in 1..Len(reqs)
  /\ reqs[i].net \notin { "sent", "serving" }
  /\ FourResponse(i, Settled(i))

\* The backend has no route for the path Four fetches, so no request of Four
\* is ever answered with a body and FourBody has no part here.
NextServer ==
  \/ CallOne
  \/ CallTwo
  \/ CallThree
  \/ CallFour
  \/ \E i \in Slots : SrvArrive(i, Path(variant))
  \/ \E i \in Slots : SrvTimeout(i)
  \/ \E i \in Slots : SrvOneResponse(i)
  \/ \E i \in Slots : SrvOneBody(i)
  \/ \E i \in Slots : SrvTwoResponse(i)
  \/ \E i \in Slots : SrvTwoBody(i)
  \/ \E i \in Slots : SrvThreeResponse(i)
  \/ \E i \in Slots : SrvThreeBody(i)
  \/ \E i \in Slots : SrvFourResponse(i)

SpecServer == Init /\ [][NextServer]_vars

(* ----------- Three and Four against the limited-requests handler ------ *)

SrvFourBody(i) ==
  /\ i \in 1..Len(reqs)
  /\ FourBody(i, ServerBody(IdOf(reqs, i)))

InitLimited ==
  /\ Init
  /\ variant \in { "Three", "Four" }

\* Every request of the call is routed to /api/limited-requests/, the
\* endpoint both coordinators are written for.
NextLimited ==
  \/ CallThree
  \/ CallFour
  \/ \E i \in Slots : SrvArrive(i, "/api/limited-requests/")
  \/ \E i \in Slots : SrvTimeout(i)
  \/ \E i \in Slots : SrvThreeResponse(i)
  \/ \E i \in Slots : SrvThreeBody(i)
  \/ \E i \in Slots : SrvFourResponse(i)
  \/ \E i \in Slots : SrvFourBody(i)

SpecLimited == InitLimited /\ [][NextLimited]_vars

(* ----------------- two calls of Four in the same program -------------- *)

\* the bindings of the call whose task is running
Current ==
  [deviceIds |-> deviceIds, result |-> result, reqs |-> reqs, map |-> map,
   returned |-> returned, activeRequests |-> activeRequests,
   currentIndex |-> currentIndex]

\* activeRequests and currentIndex declared at module level: the call that
\* runs next finds the values the running call left
MutClosure(own, running) ==
  [own EXCEPT !.activeRequests = running.activeRequests,
              !.currentIndex = running.currentIndex]

\* The bindings a call finds when one of its tasks runs after a task of the
\* call "running": map, activeRequests and currentIndex are declared inside
\* the function body, so every call has its own.
Closure(own, running) == own

\* the event loop turns from a task of one call to a task of the other
Switch ==
  /\ deviceIds' = Closure(other, Current).deviceIds
  /\ result' = Closure(other, Current).result
  /\ reqs' = Closure(other, Current).reqs
  /\ map' = Closure(other, Current).map
  /\ returned' = Closure(other, Current).returned
  /\ activeRequests' = Closure(other, Current).activeRequests
  /\ currentIndex' = Closure(other, Current).currentIndex
  /\ other' = Current
  /\ UNCHANGED <<clock, variant>>

\* the identifiers of the second call
OtherList(n) == [i \in 1..n |-> << i + 1 >>]

InitPair ==
  /\ variant = "Four"
  /\ deviceIds \in { LongList(n) : n \in 0..MaxLen }
  /\ result = "idle"
  /\ reqs = << >>
  /\ map = << >>
  /\ returned = << >>
  /\ activeRequests = 0
  /\ currentIndex = 0
  /\ other \in { NewCall(OtherList(n)) : n \in 0..(ShortLen - 1) }
  /\ clock = NoClock

\* Every request of the two calls is answered with a successful response
\* and the body true.
NextPair ==
  \/ CallFour
  \/ \E i \in Slots : FourResponse(i, "ok")
  \/ \E i \in Slots : FourBody(i, "true")
  \/ Switch

SpecPair == InitPair /\ [][NextPair]_vars

(* ------------------------ a request that hangs ------------------------ *)

\* fetch(...) is called without a timeout or an abort signal: a request the
\* transport never answers, or whose body never arrives, stays pending for
\* ever.  At most one request of the call hangs.
Hang(i) ==
  /\ i \in 1..Len(reqs)
  /\ reqs[i].phase \in { "fetching", "parsing" }
  /\ \A j \in 1..Len(reqs) : reqs[j].net /= "hung"
  /\ reqs' = [reqs EXCEPT ![i].net = "hung"]
  /\ UNCHANGED <<clock, other, variant, deviceIds, result, map, returned, activeRequests, currentIndex>>

Alive(i) == i \in 1..Len(reqs) /\ reqs[i].net /= "hung"

AliveOneResponse(i, kind) == Alive(i) /\ OneResponse(i, kind)

AliveOneBody(i, body) == Alive(i) /\ OneBody(i, body)

AliveThreeResponse(i, kind) == Alive(i) /\ ThreeResponse(i, kind)

AliveThreeBody(i, body) == Alive(i) /\ ThreeBody(i, body)

AliveFourResponse(i, kind) == Alive(i) /\ FourResponse(i, kind)

AliveFourBody(i, body) == Alive(i) /\ FourBody(i, body)

InitHung ==
  /\ Init
  /\ variant \in { "One", "Three", "Four" }

\* the steps of the call and of the transport for the requests it answers
Answers ==
  \/ CallOne
  \/ \E i \in Slots : AliveOneResponse(i, "ok")
  \/ \E i \in Slots : AliveOneBody(i, "true")
  \/ CallThree
  \/ \E i \in Slots : AliveThreeResponse(i, "ok")
  \/ \E i \in Slots : AliveThreeBody(i, "true")
  \/ CallFour
  \/ \E i \in Slots : AliveFourResponse(i, "ok")
  \/ \E i \in Slots : AliveFourBody(i, "true")

NextHung ==
  \/ Answers
  \/ \E i \in Slots : Hang(i)

\* Every request that does not hang is answered in the end, with a
\* successful response and the body true, and the event loop runs every task
\* that is ready.
SpecHung == InitHung /\ [][NextHung]_vars /\ WF_vars(Answers)

(* ------------------- requests that all take the same time ------------ *)

\* longest delay of a request, in ticks of the clock
MaxDelay == 2

\* The transport takes up the requests in the order fetch(...) was called,
\* at the time it was called: the request is answered, and its body read,
\* clock.delay later.
Depart ==
  /\ Len(clock.due) < Len(reqs)
  /\ clock' = [clock EXCEPT !.due = Append(@, clock.now + clock.delay)]
  /\ UNCHANGED <<other, variant, deviceIds, result, reqs, map, returned,
                 activeRequests, currentIndex>>

\* request i is answered now
Due(i) == i \in 1..Len(clock.due) /\ clock.due[i] = clock.now

DueFourResponse(i, kind) == Due(i) /\ FourResponse(i, kind)

DueFourBody(i, body) == Due(i) /\ FourBody(i, body)

\* Time passes while requests are on their way, and only when the event loop
\* has nothing left to run: every request has been taken up and none of them
\* is answered at this time.
Tick ==
  /\ Outstanding(reqs) /= { }
  /\ Len(clock.due) = Len(reqs)
  /\ \A i \in Outstanding(reqs) : clock.due[i] > clock.now
  /\ clock' = [clock EXCEPT !.now = @ + 1]
  /\ UNCHANGED <<other, variant, deviceIds, result, reqs, map, returned,
                 activeRequests, currentIndex>>

InitClock ==
  /\ variant = "Four"
  /\ deviceIds \in { LongList(n) : n \in 0..MaxLen }
  /\ result = "idle"
  /\ reqs = << >>
  /\ map = << >>
  /\ returned = << >>
  /\ activeRequests = 0
  /\ currentIndex = 0
  /\ other = NewCall(<< >>)
  /\ clock \in { [now |-> 0, delay |-> d, due |-> << >>] : d \in 1..MaxDelay }

NextClock ==
  \/ CallFour
  \/ Depart
  \/ \E i \in Slots, kind \in FetchKinds : DueFourResponse(i, kind)
  \/ \E i \in Slots : DueFourBody(i, "true")
  \/ Tick

\* The event loop runs every task that is ready and the clock does not stop.
\* A request fails or is answered with the body true.
SpecClock == InitClock /\ [][NextClock]_vars /\ WF_vars(NextClock)

(* --------------- two runs of a call against the same backend ---------- *)

\* "2" and "02" are different identifiers with the same number
TiePool == { <<2>>, <<0, 2>>, <<1, 0>> }

\* the lists of at most n different identifiers of S
DistinctOver(S, n) ==
  { s \in SeqsOver(S, n) : \A p, q \in 1..Len(s) : s[p] = s[q] => p = q }

\* What the backend has shown of its outcome for an identifier through the
\* request r: how fetch(...) settled, and the body response.json() read.
Responded(r) == r.phase /= "fetching"

KindOf(r) == IF r.outcome \in { "network", "status" } THEN r.outcome ELSE "ok"

BodyRead(r) == r.phase = "done" /\ r.outcome \notin { "network", "status", "none" }

BodyOf(r, body) ==
  IF Json(body) = "throws" THEN r.outcome = "badjson" ELSE r.outcome = body

\* The backend's outcome for an identifier is fixed: request i of this run
\* is answered as the request of the other run for the same identifier was.
SameKind(i, kind) ==
  /\ i \in 1..Len(reqs)
  /\ \A j \in 1..Len(other.reqs) :
       other.reqs[j].pos = reqs[i].pos /\ Responded(other.reqs[j])
         => KindOf(other.reqs[j]) = kind

SameBody(i, body) ==
  /\ i \in 1..Len(reqs)
  /\ \A j \in 1..Len(other.reqs) :
       other.reqs[j].pos = reqs[i].pos /\ BodyRead(other.reqs[j])
         => BodyOf(other.reqs[j], body)

SameTwoResponse(i, kind) == SameKind(i, kind) /\ TwoResponse(i, kind)

SameTwoBody(i, body) == SameBody(i, body) /\ TwoBody(i, body)

SameThreeResponse(i, kind) == SameKind(i, kind) /\ ThreeResponse(i, kind)

SameThreeBody(i, body) == SameBody(i, body) /\ ThreeBody(i, body)

SameFourResponse(i, kind) == SameKind(i, kind) /\ FourResponse(i, kind)

SameFourBody(i, body) == SameBody(i, body) /\ FourBody(i, body)

\* the same coordinator is called twice with the same list
InitTwin ==
  /\ variant \in { "Two", "Three", "Four" }
  /\ deviceIds \in DistinctOver(TiePool, ShortLen)
  /\ result = "idle"
  /\ reqs = << >>
  /\ map = << >>
  /\ returned = << >>
  /\ activeRequests = 0
  /\ currentIndex = 0
  /\ other = NewCall(deviceIds)
  /\ clock = NoClock

\* the second run begins when the first is over
Again ==
  /\ result \in { "resolved", "rejected" }
  /\ other.result = "idle"
  /\ Switch

\* One run after the other, the requests of each answered in any order, by
\* a failure or a response whose body is true, false or not JSON.
NextTwin ==
  \/ CallTwo
  \/ \E i \in Slots, kind \in FetchKinds : SameTwoResponse(i, kind)
  \/ \E i \in Slots, body \in Bodies \ { "1" } : SameTwoBody(i, body)
  \/ CallThree
  \/ \E i \in Slots, kind \in FetchKinds : SameThreeResponse(i, kind)
  \/ \E i \in Slots, body \in Bodies \ { "1" } : SameThreeBody(i, body)
  \/ CallFour
  \/ \E i \in Slots, kind \in FetchKinds : SameFourResponse(i, kind)
  \/ \E i \in Slots, body \in Bodies \ { "1" } : SameFourBody(i, body)
  \/ Again

SpecTwin == InitTwin /\ [][NextTwin]_vars

TypeOK ==
  /\ variant \in Variants
  /\ deviceIds \in Inputs
  /\ result \in { "idle", "pending", "resolved", "rejected" }
  /\ activeRequests \in Int
  /\ currentIndex \in Nat
  /\ \A i \in 1..Len(reqs) :
       reqs[i].net \in { "sent", "serving", "answered", "403", "404", "429" }

(* ------------------------------ properties ---------------------------- *)

Positions == 1..N

InputIds == { deviceIds[p] : p \in Positions }

\* the requests issued so far for the identifier id
QueriesOf(id) == { i \in 1..Len(reqs) : IdOf(reqs, i) = id }

\* the call is over: it was made and waits on no transport promise
Quiet ==
  /\ result /= "idle"
  /\ \A i \in 1..Len(reqs) : reqs[i].phase = "done"

\* C1: in getDevicesOnlineStatusFour at most 5 status requests are ever
\* outstanding, and activeRequests stays within 0 .. 5, for every list and
\* every order of completions.
C1_FourWindow ==
  variant = "Four" =>
    /\ Cardinality(Outstanding(reqs)) <= 5
    /\ activeRequests \in 0..5

\* the window is full after a slot has been freed and refilled
C1_Witness ==
  /\ variant = "Four"
  /\ Cardinality(Outstanding(reqs)) = 5
  /\ activeRequests = 5
  /\ currentIndex > 5
  /\ \E i \in 1..Len(reqs) : reqs[i].phase = "done"

C2_Claims ==
  variant = "Four" =>
    /\ currentIndex <= N
    /\ Len(reqs) = currentIndex
    /\ \A i \in 1..Len(reqs) : reqs[i].pos = i /\ reqs[i].chain \in 1..5
    /\ Quiet => currentIndex = N

C2_Step == variant = "Four" => currentIndex' >= currentIndex

\* C2: in getDevicesOnlineStatusFour the requests issued are, in this order,
\* those for the list positions 1, 2, ..., currentIndex, each issued once and
\* by one admission chain; currentIndex never exceeds the list length, never
\* decreases, and has reached the list length when the call is over.
C2_FourCursor == []C2_Claims /\ [][C2_Step]_vars

\* a position beyond the first five has been claimed by a chain whose
\* earlier request has completed
C2_Witness ==
  /\ variant = "Four"
  /\ currentIndex = N
  /\ N > 5
  /\ \E i, j \in 1..Len(reqs) :
       /\ i <= 5 /\ j > 5
       /\ reqs[i].chain = reqs[j].chain
       /\ reqs[i].phase = "done"

\* C3: the map a coordinator returns has exactly the input identifiers as
\* its keys.
C3_KeySet == result = "resolved" => Keys(returned) = InputIds

\* Four has returned for a list longer than its window
C3_Witness ==
  /\ result = "resolved"
  /\ variant = "Four"
  /\ N > 5
  /\ Len(returned) = N

\* C4: the call of a coordinator never rejects, whatever the outcomes of its
\* requests.
C4_NeverRejects == result /= "rejected"

\* C5: when the call is over it has resolved with a map in which every
\* identifier all of whose queries failed outright has the value false, and
\* in which every identifier of the list has an entry.
C5_TransportFailure ==
  Quiet =>
    /\ result = "resolved"
    /\ \A id \in InputIds :
         /\ Has(returned, id)
         /\ (\A i \in QueriesOf(id) : reqs[i].outcome = "network")
              => Get(returned, id) = "false"

\* C6: in a returned map an identifier all of whose queries ended in a
\* non-success response has the value false; so when every query of the
\* call ended in a non-success response every value is false.
C6_NonSuccess ==
  result = "resolved" =>
    \A id \in InputIds :
      (\A i \in QueriesOf(id) : reqs[i].outcome = "status")
        => Has(returned, id) /\ Get(returned, id) = "false"

\* a call for more than one identifier has returned after every query ended
\* in a non-success response
C6_Witness ==
  /\ result = "resolved"
  /\ N > 1
  /\ Len(reqs) = N
  /\ \A i \in 1..Len(reqs) : reqs[i].outcome = "status"
  /\ \A j \in 1..Len(returned) : returned[j].v = "false"

\* C7: every value of a returned map is true or false.
C7_BooleanValues ==
  result = "resolved" =>
    \A j \in 1..Len(returned) : returned[j].v \in { "true", "false" }

\* C8: in getDevicesOnlineStatusThree at most 5 status requests are ever
\* outstanding.
C8_ThreeAtMostFive ==
  variant = "Three" => Cardinality(Outstanding(reqs)) <= 5

\* a full first group is outstanding while more identifiers wait
C8_Witness ==
  /\ variant = "Three"
  /\ N > 5
  /\ Cardinality(Outstanding(reqs)) = 5

\* C9: getDevicesOnlineStatusThree issues the requests in list order, in
\* groups that end at a multiple of 5 or at the end of the list, and no
\* request of a group exists while a request of an earlier group is
\* unfinished.
C9_ThreeGroups ==
  variant = "Three" =>
    /\ \A i \in 1..Len(reqs) : reqs[i].pos = i
    /\ Len(reqs) % 5 = 0 \/ Len(reqs) = N
    /\ \A i, j \in 1..Len(reqs) :
         reqs[j].pos <= 5 * ((reqs[i].pos - 1) \div 5) => reqs[j].phase = "done"

\* a request of the second group is outstanding
C9_Witness ==
  /\ variant = "Three"
  /\ \E i \in 1..Len(reqs) : reqs[i].pos > 5 /\ reqs[i].phase = "fetching"

\* C10: getDevicesOnlineStatusOne never has two requests outstanding: the
\* requests are issued in list order and each one only after all the
\* earlier ones have finished.
C10_OneSerial ==
  variant = "One" =>
    /\ Cardinality(Outstanding(reqs)) <= 1
    /\ \A i \in 1..Len(reqs) :
         /\ reqs[i].pos = i
         /\ i < Len(reqs) => reqs[i].phase = "done"

\* the second request is outstanding after the first has failed
C10_Witness ==
  /\ variant = "One"
  /\ Len(reqs) >= 2
  /\ reqs[1].outcome \in { "status", "network" }
  /\ Cardinality(Outstanding(reqs)) = 1

\* C11: getDevicesOnlineStatusTwo issues the requests for all the list
\* positions, in list order, in the step of the call, before it waits on any
\* of them, and it returns only when all of them have finished.
C11_TwoFanOut ==
  variant = "Two" /\ result /= "idle" =>
    /\ Len(reqs) = N
    /\ \A i \in 1..Len(reqs) : reqs[i].pos = i
    /\ result = "resolved" <=> AllDone(reqs)

\* more requests than the capped coordinators allow are outstanding at once
C11_Witness ==
  /\ variant = "Two"
  /\ N > 5
  /\ Len(reqs) = N
  /\ \A i \in 1..N : reqs[i].phase = "fetching"

C12_Full ==
  variant = "Four" /\ result = "pending" /\ currentIndex < N =>
    /\ Cardinality(Outstanding(reqs)) = 5
    /\ activeRequests = 5

C12_Step ==
  ( /\ variant = "Four"
    /\ currentIndex < N
    /\ \E i \in 1..Len(reqs) : reqs[i].phase /= "done" /\ reqs'[i].phase = "done" )
  => /\ currentIndex' = currentIndex + 1
     /\ Len(reqs') = Len(reqs) + 1
     /\ reqs'[Len(reqs')].pos = currentIndex + 1
     /\ reqs'[Len(reqs')].phase = "fetching"

\* C12: in getDevicesOnlineStatusFour a step in which a request completes
\* while unclaimed positions remain also claims the next position and issues
\* its request; so after every step, while currentIndex is below the list
\* length, exactly 5 requests are in flight.
C12_FourRefill == []C12_Full /\ [][C12_Step]_vars

\* the sixth position has been claimed in the step that completed one of
\* the first five
C12_Witness ==
  /\ variant = "Four"
  /\ Len(reqs) = 6
  /\ reqs[6].phase = "fetching"
  /\ Cardinality({ i \in 1..5 : reqs[i].phase = "done" }) = 1
  /\ Cardinality(Outstanding(reqs)) = 5

\* C13: getDevicesOnlineStatusFour has returned only when the cursor is at
\* the end of the list, activeRequests is 0 and every list position has been
\* requested, has completed and has its key in the map that was sorted.
C13_FourReturn ==
  variant = "Four" /\ result = "resolved" =>
    /\ currentIndex = N
    /\ activeRequests = 0
    /\ Len(reqs) = N
    /\ AllDone(reqs)
    /\ \A i \in 1..Len(reqs) : Has(map, IdOf(reqs, i)) /\ Has(returned, IdOf(reqs, i))

\* Four has returned after a request chained from a completion was the last
\* to finish
C13_Witness ==
  /\ variant = "Four"
  /\ result = "resolved"
  /\ N > 5
  /\ activeRequests = 0
  /\ map[Len(map)].k = deviceIds[N]

\* C14: the map returned by Two, Three or Four iterates in ascending numeric
\* order of its keys.
C14_Ascending ==
  variant \in { "Two", "Three", "Four" } /\ result = "resolved" =>
    \A j, k \in 1..Len(returned) :
      j < k => Number(returned[j].k) < Number(returned[k].k)

\* a map that was filled in another order than the numeric one was returned
C14_Witness ==
  /\ variant \in { "Two", "Three", "Four" }
  /\ result = "resolved"
  /\ \E j, k \in 1..Len(map) : j < k /\ Number(map[j].k) > Number(map[k].k)

\* the list positions at which an identifier occurs for the first time
FirstAt == { p \in Positions : \A q \in 1..(p - 1) : deviceIds[q] /= deviceIds[p] }

\* C15: the map returned by getDevicesOnlineStatusOne iterates in the order
\* in which the identifiers first occur in the list.
C15_InputOrder ==
  variant = "One" /\ result = "resolved" =>
    /\ Len(returned) = Cardinality(FirstAt)
    /\ \A j \in 1..Len(returned) :
         \E p \in FirstAt :
           /\ returned[j].k = deviceIds[p]
           /\ Cardinality({ q \in FirstAt : q < p }) = j - 1

\* One has returned a map that is not in numeric order
C15_Witness ==
  /\ variant = "One"
  /\ result = "resolved"
  /\ Len(returned) = 2
  /\ Number(returned[1].k) > Number(returned[2].k)

Distinct == \A p, q \in Positions : deviceIds[p] = deviceIds[q] => p = q

\* the queries that ended otherwise than in a successful response with a
\* JSON body
Broken == { i \in 1..Len(reqs) : reqs[i].outcome \in { "network", "status", "badjson" } }

\* C16: for distinct identifiers, when the call is over and every query was
\* answered true except at most one that failed, the call has resolved with a
\* map that holds false for the failed one and true for every other.
C16_OneFailure ==
  ( /\ Quiet
    /\ Distinct
    /\ Cardinality(Broken) <= 1
    /\ \A i \in 1..Len(reqs) : i \notin Broken => reqs[i].outcome = "true" )
  => /\ result = "resolved"
     /\ \A p \in Positions :
          /\ Has(returned, deviceIds[p])
          /\ Get(returned, deviceIds[p]) =
               IF \E i \in Broken : reqs[i].pos = p THEN "false" ELSE "true"

\* C20: when the call is over exactly one query has been issued for every
\* list position, however the queries ended.
C20_NoRetries ==
  Quiet =>
    \A p \in Positions :
      Cardinality({ i \in 1..Len(reqs) : reqs[i].pos = p }) = 1

\* C17: against the reference backend with the lookup table
\* { 10: true, 11: false, 12: true }, every coordinator called with
\* ["10", "11", "12"] ends by returning the map { 10: true, 11: false,
\* 12: true }.
C17_Table ==
  deviceIds = LongList(3) /\ Quiet =>
    /\ result = "resolved"
    /\ returned = << [k |-> <<1, 0>>, v |-> "true"],
                     [k |-> <<1, 1>>, v |-> "false"],
                     [k |-> <<1, 2>>, v |-> "true"] >>

\* C18: no request of a call of Three or Four is refused with 429 by the
\* reference backend, whose count of requests being served never passes 5.
C18_NoOverload ==
  variant \in { "Three", "Four" } =>
    /\ \A i \in 1..Len(reqs) : reqs[i].net /= "429"
    /\ activeRequestsCount <= ServerLimit

\* the limited-requests handler is at its limit and one of the requests it
\* serves is a request Four issued for a freed slot
C18_Witness ==
  /\ variant = "Four"
  /\ activeRequestsCount = ServerLimit
  /\ \E i \in Serving(reqs) : reqs[i].pos > maxConcurrentRequests

\* C19: no request of a call of One is refused with 429 by the reference
\* backend.
C19_NoBusy ==
  variant = "One" => \A i \in 1..Len(reqs) : reqs[i].net /= "429"

\* the one-request handler is serving the second request of the call
C19_Witness ==
  /\ variant = "One"
  /\ Len(reqs) >= 2
  /\ reqs[1].net = "answered"
  /\ reqs[2].net = "serving"

\* C23: once the call of a coordinator has settled, no request it issued is
\* still unfinished (and so nothing is left that could write to its map).
C23_Settled ==
  result \in { "resolved", "rejected" } =>
    \A i \in 1..Len(reqs) : reqs[i].phase = "done"

\* C24: for a list that repeats an identifier, when the call is over it has
\* resolved, one query was issued for every list position, and the map
\* returned has one entry for each distinct identifier and no other.
C24_Repeats ==
  Quiet /\ ~Distinct =>
    /\ result = "resolved"
    /\ \A p \in Positions :
         Cardinality({ i \in 1..Len(reqs) : reqs[i].pos = p }) = 1
    /\ Keys(returned) = InputIds
    /\ Len(returned) = Cardinality(InputIds)

\* C25: in getDevicesOnlineStatusFour, as long as no request has completed,
\* currentIndex = activeRequests = min(5, N) and the requests issued are
\* those for the first min(5, N) list positions, in this order.
C25_Seed ==
  ( /\ variant = "Four"
    /\ result /= "idle"
    /\ \A i \in 1..Len(reqs) : reqs[i].phase /= "done" )
  => /\ currentIndex = Min(5, N)
     /\ activeRequests = Min(5, N)
     /\ Len(reqs) = Min(5, N)
     /\ \A i \in 1..Len(reqs) : reqs[i].pos = i /\ reqs[i].chain = i

\* the pool is seeded for a list longer than the pool, and a response has
\* arrived whose body is still being read
C25_Witness ==
  /\ variant = "Four"
  /\ result = "pending"
  /\ N > 5
  /\ Len(reqs) = 5
  /\ \A i \in 1..Len(reqs) : reqs[i].phase /= "done"
  /\ \E i \in 1..Len(reqs) : reqs[i].phase = "parsing"

\* C26: in getDevicesOnlineStatusFour activeRequests is the number of
\* claimed list positions whose completion handler has not run; it is never
\* negative and never smaller than the number of requests outstanding.
C26_Counter ==
  variant = "Four" =>
    /\ activeRequests =
         Cardinality({ i \in 1..Len(reqs) : reqs[i].phase /= "done" })
    /\ activeRequests >= 0
    /\ activeRequests >= Cardinality(Outstanding(reqs))

\* the list is exhausted and the pool drains: some slots were released and
\* not claimed again
C26_Witness ==
  /\ variant = "Four"
  /\ N > 5
  /\ currentIndex = N
  /\ activeRequests \in 1..4
  /\ Cardinality({ i \in 1..Len(reqs) : reqs[i].phase = "done" }) = N - activeRequests

C27_Step ==
  /\ Keys(map) \subseteq Keys(map')
  /\ Keys(map') \subseteq InputIds
  /\ \A key \in Keys(map') :
       (key \notin Keys(map) \/ Get(map', key) /= Get(map, key)) =>
         \E i \in 1..Len(reqs) :
           /\ reqs[i].phase /= "done"
           /\ reqs'[i].phase = "done"
           /\ IdOf(reqs, i) = key
  /\ Distinct => \A key \in Keys(map) : Get(map', key) = Get(map, key)

\* C27: a step of a call changes the map only under the keys of the
\* identifiers whose handling ends in that step; no entry is removed, the
\* keys stay among the input identifiers, and for distinct identifiers a
\* value once written is not written again.
C27_FrameEffect == [][C27_Step]_vars

\* entries were written one after the other while the call goes on
C27_Witness ==
  /\ result = "pending"
  /\ Distinct
  /\ Len(map) >= 2
  /\ map[1].v /= map[2].v
  /\ Outstanding(reqs) /= { }

\* C28: when the call is over, every query that ended in a non-success
\* response, a transport failure or an unparseable body has caused at least
\* one console.error, and every query answered with a boolean has caused
\* none.
C28_Diagnostics ==
  Quiet =>
    \A i \in 1..Len(reqs) :
      /\ reqs[i].outcome \in { "status", "network", "badjson" } => reqs[i].diag >= 1
      /\ reqs[i].outcome \in { "true", "false" } => reqs[i].diag = 0

\* C30: when every request issued is answered in the end, the call of a
\* coordinator ends by resolving with a map that has an entry for every
\* identifier of the list.
C30_Terminates ==
  <>(result = "resolved" /\ Keys(returned) = InputIds)

\* every list position has been claimed, and its request has hung or has
\* finished with its identifier written to the map
C21_Rest ==
  \A p \in Positions :
    \E i \in 1..Len(reqs) :
      /\ reqs[i].pos = p
      /\ \/ reqs[i].net = "hung"
         \/ reqs[i].phase = "done" /\ Has(map, deviceIds[p])

\* C21: in getDevicesOnlineStatusFour, when at most one request hangs and
\* every other request is answered, every other identifier of the list is
\* issued and written to the map in the end.
C21_OwnSlotOnly == variant = "Four" ~> C21_Rest

\* a request of the first five hangs, and the positions behind the pool
\* have all been served by the other chains
C21_Witness ==
  /\ variant = "Four"
  /\ N > 5
  /\ result = "pending"
  /\ C21_Rest
  /\ \E i \in 1..Len(reqs) : reqs[i].net = "hung" /\ reqs[i].pos <= 5

\* the group (slice) of Three a list position belongs to
Group(p) == (p - 1) \div batchSize

C22_Blocked ==
  \A i, j \in 1..Len(reqs) :
    reqs[i].net = "hung" =>
      /\ variant = "One" => reqs[j].pos <= reqs[i].pos
      /\ variant = "Three" => Group(reqs[j].pos) <= Group(reqs[i].pos)

C22_Cohort ==
  /\ result /= "idle"
  /\ \A i \in 1..Len(reqs) : reqs[i].net = "hung" \/ reqs[i].phase = "done"

\* C22: while a request of getDevicesOnlineStatusOne hangs no request for a
\* later position is issued; while a request of getDevicesOnlineStatusThree
\* hangs no request of a later group is issued, and the other requests of
\* its group are completed in the end.
C22_HeadOfLine == []C22_Blocked /\ (variant = "Three" ~> C22_Cohort)

\* a request of the first group of Three hangs, the rest of the group has
\* finished, and the sixth identifier is not asked for
C22_Witness ==
  /\ variant = "Three"
  /\ N > 5
  /\ Len(reqs) = 5
  /\ result = "pending"
  /\ \E i \in 1..Len(reqs) :
       /\ reqs[i].net = "hung"
       /\ \A j \in 1..Len(reqs) : j /= i => reqs[j].phase = "done"

\* what the claim says of one call, c being its bindings
C29_Own(c) ==
  /\ c.activeRequests \in 0..5
  /\ c.currentIndex <= Len(c.deviceIds)
  /\ Len(c.reqs) = c.currentIndex
  /\ \A i \in 1..Len(c.reqs) : c.reqs[i].pos = i
  /\ Keys(c.map) \subseteq { c.deviceIds[p] : p \in 1..Len(c.deviceIds) }
  /\ c.result = "resolved" =>
       Keys(c.returned) = { c.deviceIds[p] : p \in 1..Len(c.deviceIds) }

C29_Each == C29_Own(Current) /\ C29_Own(other)

\* a task of one call leaves the bindings the other call will find as they
\* were
C29_Step ==
  other' = other => Closure(other, Current)' = Closure(other, Current)

\* C29: when two calls of getDevicesOnlineStatusFour are interleaved, a task
\* of one call never changes the activeRequests, currentIndex or map of the
\* other; each call keeps its count within 0 .. 5, claims its own list
\* positions once each and in order, and returns exactly its own
\* identifiers.
C29_Private == []C29_Each /\ [][C29_Step]_vars

\* both calls are under way, and the one running has refilled its pool
C29_Witness ==
  /\ result = "pending"
  /\ other.result = "pending"
  /\ activeRequests = 5
  /\ currentIndex > 5
  /\ other.activeRequests = 1
  /\ other.currentIndex = 1

C32_Whole ==
  variant = "Three" =>
    /\ \A i \in 1..Len(reqs) : \A p \in Positions :
         Group(p) = Group(reqs[i].pos) => \E j \in 1..Len(reqs) : reqs[j].pos = p
    /\ result = "pending" => \E i \in 1..Len(reqs) : reqs[i].phase /= "done"

C32_Step ==
  variant = "Three" /\ Len(reqs') /= Len(reqs) =>
    /\ \A i \in 1..Len(reqs) : reqs'[i].phase = "done"
    /\ Len(reqs') = Len(reqs) + Min(batchSize, N - Len(reqs))

\* C32: in getDevicesOnlineStatusThree the requests of a group are issued
\* in one step, the step in which the last request of the group before has
\* finished: every request issued has its whole group issued with it, and
\* the call never waits with a group finished and the next one not issued.
C32_GroupLaunch == []C32_Whole /\ [][C32_Step]_vars

\* the second group is under way
C32_Witness ==
  /\ variant = "Three"
  /\ N > batchSize
  /\ Len(reqs) = N
  /\ result = "pending"
  /\ \A i \in 1..Len(reqs) : reqs[i].pos <= batchSize => reqs[i].phase = "done"

\* C35: in getDevicesOnlineStatusTwo the map is empty as long as a fetch of
\* the call has not settled.
C35_TwoPhases ==
  ( /\ variant = "Two"
    /\ \E i \in 1..Len(reqs) : reqs[i].phase = "fetching" )
  => map = << >>

\* a fetch of Two has failed, another one is still outstanding
C35_Witness ==
  /\ variant = "Two"
  /\ \E i, j \in 1..Len(reqs) :
       /\ reqs[i].phase = "held"
       /\ reqs[i].outcome = "network"
       /\ reqs[j].phase = "fetching"

\* C36: for the empty list no request is ever issued, activeRequests and
\* currentIndex stay 0, nothing is written, and the call, once made, has
\* resolved with the empty map.
C36_EmptyList ==
  N = 0 =>
    /\ reqs = << >>
    /\ map = << >>
    /\ activeRequests = 0
    /\ currentIndex = 0
    /\ result \in { "idle", "resolved" }
    /\ returned = << >>

\* Four was called with the empty list and has returned
C36_Witness ==
  /\ N = 0
  /\ variant = "Four"
  /\ result = "resolved"

\* C37: in getDevicesOnlineStatusThree and getDevicesOnlineStatusFour the
\* requests are issued in the order of the list positions: the i-th request
\* issued is the one for position i.
C37_IssueOrder ==
  variant \in { "Three", "Four" } =>
    \A i \in 1..Len(reqs) : reqs[i].pos = i

\* in the first group of Three a request has finished before one issued
\* earlier
C37_Witness ==
  /\ variant = "Three"
  /\ N > batchSize
  /\ Len(reqs) = batchSize
  /\ \E i, j \in 1..Len(reqs) :
       /\ i < j
       /\ reqs[i].phase = "fetching"
       /\ reqs[j].phase = "done"

C38_Step ==
  ( /\ variant = "Four"
    /\ \E i \in 1..Len(reqs) : reqs[i].phase /= "done" /\ reqs'[i].phase = "done" )
  => /\ activeRequests - 1 < maxConcurrentRequests
     /\ IF currentIndex < N
        THEN currentIndex' = currentIndex + 1 /\ Len(reqs') = Len(reqs) + 1
        ELSE currentIndex' = currentIndex /\ Len(reqs') = Len(reqs)

\* C38: in getDevicesOnlineStatusFour, whenever a request finishes, the
\* count after the decrement is below maxConcurrentRequests, and a new
\* request is admitted exactly when currentIndex is below the list length.
C38_GuardAlwaysTrue == [][C38_Step]_vars

\* a request has finished with the list exhausted, and no request was
\* admitted in its place
C38_Witness ==
  /\ variant = "Four"
  /\ N > maxConcurrentRequests
  /\ Len(reqs) = N
  /\ activeRequests = maxConcurrentRequests - 2

\* the least number of groups of size that hold n
Ceil(n, size) == (n + size - 1) \div size

\* C31: with every request taking the same delay, a call of Four for N
\* identifiers is completed in the end, and at the time it is completed the
\* clock shows ceil(N / 5) delays, not N delays.
C31_AtEnd ==
  result = "resolved" =>
    clock.now = Ceil(N, 5) * clock.delay

C31_WindowTime == []C31_AtEnd /\ (variant = "Four" ~> result = "resolved")

\* six identifiers are done after two delays, four delays before the time
\* one request after the other would take
C31_Witness ==
  /\ result = "resolved"
  /\ N = maxConcurrentRequests + 1
  /\ clock.delay = MaxDelay
  /\ clock.now = 2 * clock.delay
  /\ clock.now < N * clock.delay
  /\ Len(clock.due) = N
  /\ clock.due[N] = clock.due[1] + clock.delay

\* the identifiers of the list are pairwise different as numbers
NumbersDistinct ==
  \A p, q \in Positions : Number(deviceIds[p]) = Number(deviceIds[q]) => p = q

BothResolved == result = "resolved" /\ other.result = "resolved"

\* C34 as stated: for a list of distinct identifiers and a backend whose
\* outcome per identifier is fixed, two runs of Two, Three or Four that
\* differ in the order of completions return the same map, entries and
\* iteration order.
C34_AnyDistinct ==
  Distinct /\ BothResolved => returned = other.returned

\* C34, amended: for a list of identifiers that are pairwise different as
\* numbers and a backend whose outcome per identifier is fixed, two runs of
\* Two, Three or Four that differ in the order of completions end alike:
\* never one with a map and the other with a rejection, and when both return
\* a map, the same entries in the same iteration order.
C34_SameResult ==
  NumbersDistinct =>
    /\ BothResolved => returned = other.returned
    /\ ~(result = "resolved" /\ other.result = "rejected")
    /\ ~(result = "rejected" /\ other.result = "resolved")

\* two runs that wrote their maps in different orders and return the same
C34_Witness ==
  /\ NumbersDistinct
  /\ BothResolved
  /\ N = ShortLen
  /\ Keys(map) = Keys(other.map)
  /\ map /= other.map
  /\ returned = other.returned
  /\ \E i \in 1..Len(returned) : returned[i].v /= "true"

\* the entry the call writes for list position p, from the way the request
\* for it ended
EntryAt(p) ==
  LET i == CHOOSE j \in 1..Len(reqs) : reqs[j].pos = p
  IN  [k |-> deviceIds[p],
       v |-> IF reqs[i].outcome \in { "network", "status", "badjson" }
             THEN "false" ELSE Json(reqs[i].outcome)]

\* the map Three and Four return when the requests are answered one after
\* the other in list order, each with the outcome it had in this run
InOrder == sortedMap([p \in 1..N |-> EntryAt(p)])

\* C33: for a list of distinct numeric identifiers and a backend whose
\* outcome per identifier is fixed, getDevicesOnlineStatusThree and
\* getDevicesOnlineStatusFour both return a map, with the same entries in
\* the same iteration order, whatever the order of completions: each of them
\* returns the map of the run in list order.
C33_ThreeAsFour ==
  variant \in { "Three", "Four" } /\ Distinct /\ Quiet =>
    /\ result = "resolved"
    /\ returned = InOrder

====
